---------------------------- MODULE Spec2Model ----------------------------
(***************************************************************************)
(* SmartphoneBatteryModel (src/model.py): the second-order RC battery      *)
(* model, its current solver, its state derivative, the integration loop   *)
(* of simulate and the discharge-endpoint detector find_empty_time.        *)
(*                                                                         *)
(* The program computes in binary floating point; the model computes in    *)
(* fixed point on integers.  Units:                                        *)
(*   voltage      mV        current     mA        power   mW               *)
(*   resistance   micro-ohm SOC         1e-6      time    s                *)
(*   temperature  mK        capacity    mAh                                *)
(*   derivatives  1e-3 of the state unit per second                        *)
(***************************************************************************)
EXTENDS Integers, Sequences, FiniteSets

VARIABLES
    sc,       \* the last call of solve_current: its arguments and its result
    run,      \* one simulate run: time, state vector, last derivative, trajectory
    fe,       \* one call of find_empty_time: trajectory, thresholds, result
    calls,    \* calls of the model's methods on one instance with one argument list
    dis,      \* a script simulating a list of scenarios, one after the other
    mc,       \* a Monte Carlo analysis: trials made one after the other
    par       \* two simulation runs whose steps interleave

vars == <<sc, run, fe, calls, dis, mc, par>>

\* the values of the variables a specification does not use
NoCall == [called |-> FALSE, P_total |-> 0, V_oc |-> 0, U1 |-> 0, U2 |-> 0,
           R0 |-> 0, ret |-> 0]

NoRun == [active |-> FALSE]

NoFind == [active |-> FALSE]

NoCalls == [active |-> FALSE]

NoScript == [active |-> FALSE]

NoTrials == [active |-> FALSE]

NoRuns == [active |-> FALSE]

---------------------------------------------------------------------------
(* Arithmetic helpers *)

Abs(x) == IF x < 0 THEN -x ELSE x

Min2(x, y) == IF x <= y THEN x ELSE y

Max2(x, y) == IF x >= y THEN x ELSE y

\* largest r in lo..hi with r*r <= n (n >= 0)
RECURSIVE SqrtSearch(_, _, _)
SqrtSearch(n, lo, hi) ==
    IF lo >= hi THEN lo
    ELSE LET mid == (lo + hi + 1) \div 2
         IN IF mid * mid <= n THEN SqrtSearch(n, mid, hi)
                              ELSE SqrtSearch(n, lo, mid - 1)

\* 46340 is the largest integer whose square fits 32 bits
ISqrt(n) == SqrtSearch(n, 0, 46340)

\* np.sqrt of a value in mV^2, in microvolts: the integer root plus the
\* linear interpolation of the remainder between s^2 and (s+1)^2.
np_sqrt(x) ==
    LET s == ISqrt(x)
    IN s * 1000 + ((x - s * s) * 1000) \div (2 * s + 1)

\* num / (2 * R) in mA, for num in microvolts and R in micro-ohm, without
\* leaving 32 bits: floor(500 * num / R).
over_2R(num, R) == (num \div R) * 500 + ((num % R) * 500) \div R

---------------------------------------------------------------------------
(* Parameters, src/model.py:5-47.  Units of the fields: Q0 micro-Ah;       *)
(* voltages mV; resistances micro-ohm; capacitances F; time constants s;   *)
(* Ea J/mol; R_gas mJ/(mol K); T_ref mK; C_th J/K; h W/(m2 K); A 1e-3 m2;  *)
(* k_aging 1e-6; powers mW; P_cpu_B and P_a 1e-3; beta mW/Mbps;            *)
(* P_screen_square 1e-2 dm2.                                               *)

SmartphoneBatteryModel ==
    LET R1 == 30000
        C1 == 2000
        R2 == 20000
        C2 == 5000
    IN [Q0 |-> 4735952, V_nom |-> 3700,
        R0 |-> 50000, R1 |-> R1, C1 |-> C1, R2 |-> R2, C2 |-> C2,
        tau1 |-> (R1 * C1) \div 1000000, tau2 |-> (R2 * C2) \div 1000000,
        Ea |-> 35000, R_gas |-> 8314, T_ref |-> 298150, alpha |-> 500, F |-> 96485,
        C_th |-> 200, h |-> 10, A |-> 10,
        k_aging |-> 5,
        P_cpu_idle |-> 100, P_cpu_B |-> 500, P_cpu_f |-> 2, P_cpu_max |-> 3000,
        P_net_idle |-> 100, beta |-> 100, P_gps |-> 100, P_base |-> 50,
        P_refresh |-> 60, P_screen_square |-> 114, P_a |-> 20, P_screen_max |-> 600]

---------------------------------------------------------------------------
(* Physical formulas, src/model.py:49-84 *)

\* the value of a floating-point operation that has no real result
NaN == -2147483647

\* x / y rounded toward zero (y > 0)
quot(x, y) == IF x >= 0 THEN x \div y ELSE -((-x) \div y)

\* sum of the terms x^k / k!, k >= n, of the exponential series (1e-3)
RECURSIVE ExpSeries(_, _, _, _)
ExpSeries(x, n, term, acc) ==
    IF term = 0 THEN acc
    ELSE LET next == (term * x) \div (1000 * n)
         IN ExpSeries(x, n + 1, next, acc + next)

\* np.exp, argument and value in 1e-3
np_exp(x) ==
    IF x >= 0 THEN ExpSeries(x, 1, 1000, 1000)
    ELSE 1000000 \div ExpSeries(-x, 1, 1000, 1000)

\* T * T_ref in K^2, for temperatures in mK
KelvinSquared(T, T_ref) == ((T \div 10) * (T_ref \div 10)) \div 10000

V_oc_sagging(SOC) ==
    LET s2 == ((SOC \div 100) * (SOC \div 100)) \div 100
        s3 == ((s2 \div 100) * (SOC \div 100)) \div 100
        uV == 2390000 + (265 * SOC) \div 100 - (1111 * s2) \div 100
              + (24973 * (s3 \div 100)) \div 10
    IN uV \div 1000

\* line 52: 3.39 + 2.65*SOC - 11.11*SOC**2 + 24.973*SOC**3, in mV for SOC
\* in 1e-6; the powers of SOC are taken at a resolution of 1e-4.
V_oc(SOC) ==
    LET s2 == ((SOC \div 100) * (SOC \div 100)) \div 100
        s3 == ((s2 \div 100) * (SOC \div 100)) \div 100
        uV == 3390000 + (265 * SOC) \div 100 - (1111 * s2) \div 100
              + (24973 * (s3 \div 100)) \div 10
    IN uV \div 1000

get_RC_params_R0_only(self, SOC, T) ==
    LET T_effect == np_exp(quot(quot(self.T_ref - T, 100), KelvinSquared(T, self.T_ref)))
        SOC_effect == 1000000 + quot(1000000 - SOC, 2)
        scaled(R) == ((((R \div 10) * (SOC_effect \div 100)) \div 1000) * T_effect) \div 1000
    IN [R0 |-> scaled(self.R0), R1 |-> self.R1, R2 |-> self.R2]

\* lines 54-72; T_effect in 1e-3, SOC_effect in 1e-6
get_RC_params(self, SOC, T) ==
    LET T_effect == np_exp(quot(quot(self.T_ref - T, 100), KelvinSquared(T, self.T_ref)))
        SOC_effect == 1000000 + quot(1000000 - SOC, 2)
        scaled(R) == ((((R \div 10) * (SOC_effect \div 100)) \div 1000) * T_effect) \div 1000
    IN [R0 |-> scaled(self.R0), R1 |-> scaled(self.R1), R2 |-> scaled(self.R2)]

\* lines 74-76, in 1e-3
f_T(self, T) ==
    np_exp(quot((T - self.T_ref) * ((self.Ea * 1000) \div self.R_gas),
                KelvinSquared(T, self.T_ref)))

\* lines 78-80, in 1e-3; the radicand is in 1e-6 and t is used as passed
f_aging(self, t) ==
    LET radicand == 1000000 - self.k_aging * t
    IN IF radicand < 0 THEN NaN ELSE ISqrt(radicand)

\* lines 82-84, in mAh
Q_eff(self, T, t) ==
    IF f_aging(self, t) = NaN THEN NaN
    ELSE ((((self.Q0 \div 1000) * f_T(self, T)) \div 1000) * f_aging(self, t)) \div 1000

---------------------------------------------------------------------------
(* component_power, src/model.py:86-111.  A load sample is a function on   *)
(* a subset of the keys; brightness and cpu_usage in 1e-2, data_rate in    *)
(* 0.1 Mbps, T_amb in mK.                                                  *)

has(scenario, key) == key \in DOMAIN scenario

\* dict.get(key, default)
get(scenario, key, default) == IF has(scenario, key) THEN scenario[key] ELSE default

component_power_base_only(self, t, scenario) == self.P_base

component_power_any_flag(self, t, scenario) ==
    LET screen == IF has(scenario, "screen_on")
                  THEN (self.P_a * get(scenario, "brightness", 50) * self.P_refresh
                        * self.P_screen_square) \div 10000
                  ELSE 0
        cpu == IF has(scenario, "cpu_usage")
               THEN self.P_cpu_idle
                    + (scenario["cpu_usage"] * self.P_cpu_B
                       * (self.P_cpu_f * self.P_cpu_f * self.P_cpu_f)) \div 100
               ELSE 0
        net == IF has(scenario, "data_rate")
               THEN self.P_net_idle + (self.beta * scenario["data_rate"]) \div 10
               ELSE 0
        gps == IF has(scenario, "gps_on") THEN self.P_gps ELSE 0
    IN self.P_base + screen + cpu + net + gps

component_power_capped(self, t, scenario) ==
    LET screen == IF has(scenario, "screen_on") /\ scenario["screen_on"] = TRUE
                  THEN (self.P_a * get(scenario, "brightness", 50) * self.P_refresh
                        * self.P_screen_square) \div 10000
                  ELSE 0
        cpu == IF has(scenario, "cpu_usage")
               THEN self.P_cpu_idle
                    + (scenario["cpu_usage"] * self.P_cpu_B
                       * (self.P_cpu_f * self.P_cpu_f * self.P_cpu_f)) \div 100
               ELSE 0
        net == IF has(scenario, "data_rate")
               THEN self.P_net_idle + (self.beta * scenario["data_rate"]) \div 10
               ELSE 0
        gps == IF has(scenario, "gps_on") /\ scenario["gps_on"] = TRUE
               THEN self.P_gps
               ELSE 0
    IN self.P_base + Min2(screen, self.P_screen_max) + Min2(cpu, self.P_cpu_max)
       + net + gps

component_power(self, t, scenario) ==
    LET screen == IF has(scenario, "screen_on") /\ scenario["screen_on"] = TRUE
                  THEN (self.P_a * get(scenario, "brightness", 50) * self.P_refresh
                        * self.P_screen_square) \div 10000
                  ELSE 0
        cpu == IF has(scenario, "cpu_usage")
               THEN self.P_cpu_idle
                    + (scenario["cpu_usage"] * self.P_cpu_B
                       * (self.P_cpu_f * self.P_cpu_f * self.P_cpu_f)) \div 100
               ELSE 0
        net == IF has(scenario, "data_rate")
               THEN self.P_net_idle + (self.beta * scenario["data_rate"]) \div 10
               ELSE 0
        gps == IF has(scenario, "gps_on") /\ scenario["gps_on"] = TRUE
               THEN self.P_gps
               ELSE 0
    IN self.P_base + screen + cpu + net + gps

---------------------------------------------------------------------------
(* solve_current, src/model.py:113-144 *)

V_EFF_MIN == 100        \* 0.1 V

I_MAX == 5000           \* 5.0 A

zero_current_strict(V_eff, P_total, R0) ==
    V_eff < V_EFF_MIN \/ P_total <= 0 \/ R0 <= 0

\* line 124: the zero-current condition
zero_current(V_eff, P_total, R0) ==
    V_eff <= V_EFF_MIN \/ P_total <= 0 \/ R0 <= 0

\* line 132: delta = b**2 - 4*a*c, in mV^2 (a micro-ohm, b mV, c mW)
discriminant(a, b, c) == b * b - (a * c) \div 250

tangent_current_no2(V_eff, R0) == 2 * over_2R(V_eff * 1000, R0)

tangent_current_none(V_eff, R0) == 0

\* line 136: I = V_eff / (2 * R0)
tangent_current(V_eff, R0) == over_2R(V_eff * 1000, R0)

larger_root(a, b, delta) == over_2R((-b) * 1000 + np_sqrt(delta), a)

mirrored_root(a, b, delta) == -over_2R((-b) * 1000 + np_sqrt(delta), a)

\* line 139: I = (-b - np.sqrt(delta)) / (2 * a)
smaller_root(a, b, delta) == over_2R((-b) * 1000 - np_sqrt(delta), a)

clip_lower_only(x, lo, hi) == Max2(x, lo)

\* line 142: np.clip
clip(x, lo, hi) == Min2(Max2(x, lo), hi)

solve_current(P_total, Voc, U1, U2, R0) ==
    LET V_eff == Voc - U1 - U2
    IN IF zero_current(V_eff, P_total, R0) THEN 0
       ELSE LET a == R0
                b == -V_eff
                c == P_total
                delta == discriminant(a, b, c)
                I == IF delta < 0 THEN tangent_current(V_eff, R0)
                                  ELSE smaller_root(a, b, delta)
            IN clip(I, 0, I_MAX)

---------------------------------------------------------------------------
(* model_equations, src/model.py:146-200.  y = [SOC, T_batt, U1, U2];      *)
(* scenario is the load sample scenario_func(t).  The result holds the     *)
(* derivative (dSOC in 1e-9/s, dT in micro-K/s, dU1 and dU2 in             *)
(* microvolt/s), the times at which scenario_func was called, and the      *)
(* locals P_total, R0, R1, R2, I_A and Q_eff when they were computed.       *)

zero_derivative == [SOC |-> 0, T_batt |-> 0, U1 |-> 0, U2 |-> 0]

\* the value of a nonzero negative number divided by zero
NegInf == -2147483646

Finite(x) == x # NaN /\ x # NegInf

\* (x * 10) / 9 without leaving 32 bits
TenNinths(x) == (x \div 9) * 10 + ((x % 9) * 10) \div 9

\* line 183: dSOC_dt = -I_mA / (Q_eff * 3600); numpy division, so a zero
\* Q_eff gives nan (0/0) or -inf and no exception
dSOC_dt_plus(I_mA, Q) ==
    IF Q = NaN THEN NaN
    ELSE IF Q = 0 THEN (IF I_mA = 0 THEN NaN ELSE NegInf)
    ELSE TenNinths((I_mA * 250000) \div Q)

dSOC_dt_amps(I_mA, Q) ==
    IF Q = NaN THEN NaN
    ELSE IF Q = 0 THEN (IF I_mA = 0 THEN NaN ELSE NegInf)
    ELSE -TenNinths(((I_mA \div 1000) * 250000) \div Q)

dSOC_dt(I_mA, Q) ==
    IF Q = NaN THEN NaN
    ELSE IF Q = 0 THEN (IF I_mA = 0 THEN NaN ELSE NegInf)
    ELSE -TenNinths((I_mA * 250000) \div Q)

never_empty(SOC) == FALSE

\* lines 158-159: the empty battery has no dynamics
is_empty(SOC) == SOC <= 0

time_constants_adjusted(self, rc) ==
    [tau1 |-> (rc.R1 * self.C1) \div 1000000, tau2 |-> (rc.R2 * self.C2) \div 1000000]

\* lines 187, 191: self.tau1 and self.tau2, the fields set at lines 18-19;
\* rc, the resistances of get_RC_params, is not used
time_constants(self, rc) == [tau1 |-> self.tau1, tau2 |-> self.tau2]

model_equations(self, t, y, scenario) ==
    IF is_empty(y.SOC)
    THEN [dy |-> zero_derivative, queries |-> <<>>, solved |-> FALSE,
          P_total |-> 0, R0 |-> 0, R1 |-> 0, R2 |-> 0, I_A |-> 0, Q_eff |-> 0]
    ELSE
        LET P_total == component_power(self, t, scenario)
            Voc == V_oc(y.SOC)
            rc == get_RC_params(self, y.SOC, y.T_batt)
            I_A == solve_current(P_total, Voc, y.U1, y.U2, rc.R0)
            Q == Q_eff(self, y.T_batt, t)
            tau == time_constants(self, rc)
            dU1_dt == quot((I_A * rc.R1) \div 1000 - y.U1 * 1000, tau.tau1)
            dU2_dt == quot((I_A * rc.R2) \div 1000 - y.U2 * 1000, tau.tau2)
            R_total == rc.R0 + rc.R1 + rc.R2
            P_heat == (((I_A * I_A) \div 1000) * (R_total \div 1000)) \div 1000
            P_cool == quot(self.h * self.A * (y.T_batt - get(scenario, "T_amb", 298150)),
                           1000)
            dT_dt == quot((P_heat - P_cool) * 1000, self.C_th)
        IN [dy |-> [SOC |-> dSOC_dt(I_A, Q), T_batt |-> dT_dt,
                    U1 |-> dU1_dt, U2 |-> dU2_dt],
            queries |-> <<t>>, solved |-> TRUE,
            P_total |-> P_total, R0 |-> rc.R0, R1 |-> rc.R1, R2 |-> rc.R2,
            I_A |-> I_A, Q_eff |-> Q]

---------------------------------------------------------------------------
(* simulate, src/model.py:202-213.  solve_ivp is a library routine: the    *)
(* model takes one accepted step of it as one evaluation of                *)
(* model_equations at the current sample, advanced over a step h of at     *)
(* most max_step seconds and ending at t_span[1] at the latest.  The load  *)
(* model is any function of time: every query draws a load sample.         *)

\* load samples of src/scenery.py: gaming, idle, and video streaming in the
\* cold (its first phase)
scenario_gaming == [screen_on |-> TRUE, brightness |-> 100, cpu_usage |-> 80,
                    data_rate |-> 1, gps_on |-> FALSE, T_amb |-> 298150]

scenario_free == [screen_on |-> FALSE, brightness |-> 0, cpu_usage |-> 0,
                  data_rate |-> 0, gps_on |-> FALSE, T_amb |-> 298150]

scenario_cold == [screen_on |-> TRUE, brightness |-> 70, cpu_usage |-> 30,
                  data_rate |-> 20, gps_on |-> FALSE, T_amb |-> 273150]

LoadSamples == {scenario_gaming, scenario_free, scenario_cold}

\* (x * h) / 1000 rounded toward zero, without leaving 32 bits
times_h(x, h) ==
    LET a == Abs(x)
        p == (a \div 1000) * h + ((a % 1000) * h) \div 1000
    IN IF x >= 0 THEN p ELSE -p

\* y + h * dy, the derivative being in 1e-3 of the state unit
advance(y, dy, h) ==
    [SOC |-> y.SOC + times_h(dy.SOC, h),
     T_batt |-> y.T_batt + times_h(dy.T_batt, h),
     U1 |-> y.U1 + times_h(dy.U1, h),
     U2 |-> y.U2 + times_h(dy.U2, h)]

\* the result object of solve_ivp: the trajectory, status 0 (t_span[1]
\* reached) or -1 (the step failed), and success = (status >= 0)
OdeResult(sol, status) ==
    [t |-> sol.t, y |-> sol.y, eps |-> sol.eps,
     status |-> status, success |-> status >= 0]

NoResult == [t |-> <<>>, y |-> <<>>, eps |-> <<>>, status |-> 0, success |-> FALSE]

trajectory_only(res) == [res EXCEPT !.status = 0, !.success = TRUE]

\* line 213: return sol
simulate_return(res) == res

NoEvaluation == [solved |-> FALSE, R0 |-> 0, R1 |-> 0, R2 |-> 0, Q_eff |-> 0]

\* the locals of the last evaluation of model_equations
evaluation(r) ==
    [solved |-> r.solved, R0 |-> r.R0, R1 |-> r.R1, R2 |-> r.R2, Q_eff |-> r.Q_eff]

MaxStep == 60           \* max_step, the default of simulate
MaxSteps == 3           \* accepted steps followed in one run

\* initial states: a full, a half-full and two nearly empty batteries
SOC0Inputs == {1000000, 500000, 8000, 3000}
T0Inputs == {298150, 283150}
U0Inputs == {0, 30}

\* t_span[0]: 0 as in the callers, and one minute before 1 / k_aging
TStartInputs == {0, 199940}

\* t_span[1] - t_span[0]: a short span and the 24 hours of the callers
TEndInputs == {90, 24 * 3600}

\* the integrator steps by max_step or refines it to half
StepSizes == {MaxStep, MaxStep \div 2}

InitRun ==
    /\ sc = NoCall /\ fe = NoFind /\ calls = NoCalls /\ dis = NoScript
    /\ mc = NoTrials /\ par = NoRuns
    /\ \E soc \in SOC0Inputs, T \in T0Inputs, u \in U0Inputs,
          t0 \in TStartInputs, t1 \in TEndInputs :
         LET y0 == [SOC |-> soc, T_batt |-> T, U1 |-> u, U2 |-> u]
         IN run = [active |-> TRUE, self |-> SmartphoneBatteryModel,
                   t |-> t0, y |-> y0, t_end |-> t0 + t1, status |-> "running",
                   f |-> zero_derivative, queries |-> 0,
                   eval |-> NoEvaluation,
                   sol |-> [t |-> <<t0>>, y |-> <<y0>>, eps |-> <<0>>],
                   ret |-> NoResult]

\* one accepted step of the integrator
Step ==
    /\ run.active /\ run.status = "running" /\ run.t < run.t_end
    /\ Len(run.sol.t) <= MaxSteps
    /\ \E hmax \in StepSizes, scenario \in LoadSamples :
         LET h == Min2(hmax, run.t_end - run.t)
             r == model_equations(run.self, run.t, run.y, scenario)
             y1 == advance(run.y, r.dy, h)
         IN /\ Finite(r.dy.SOC)
            /\ run' = [run EXCEPT !.t = run.t + h, !.y = y1, !.f = r.dy,
                                  !.queries = run.queries + Len(r.queries),
                                  !.eval = evaluation(r),
                                  !.sol = [t |-> Append(run.sol.t, run.t + h),
                                           y |-> Append(run.sol.y, y1),
                                           eps |-> Append(run.sol.eps, 0)]]
    /\ UNCHANGED <<sc, fe, calls, dis, mc, par>>

\* a derivative that is not finite makes every trial step fail its error
\* test: the integrator shrinks the step to nothing and gives up, and
\* simulate returns the trajectory reached so far with status -1
Fail ==
    /\ run.active /\ run.status = "running" /\ run.t < run.t_end
    /\ Len(run.sol.t) <= MaxSteps
    /\ \E scenario \in LoadSamples :
         LET r == model_equations(run.self, run.t, run.y, scenario)
         IN /\ ~Finite(r.dy.SOC)
            /\ run' = [run EXCEPT !.status = "failed",
                                  !.queries = run.queries + Len(r.queries),
                                  !.eval = evaluation(r),
                                  !.ret = simulate_return(OdeResult(run.sol, -1))]
    /\ UNCHANGED <<sc, fe, calls, dis, mc, par>>

\* solve_ivp returns when t_span[1] is reached
Finish ==
    /\ run.active /\ run.status = "running" /\ run.t >= run.t_end
    /\ run' = [run EXCEPT !.status = "finished",
                          !.ret = simulate_return(OdeResult(run.sol, 0))]
    /\ UNCHANGED <<sc, fe, calls, dis, mc, par>>

NextRun == Step \/ Fail \/ Finish

SpecRun == InitRun /\ [][NextRun]_vars

---------------------------------------------------------------------------
(* find_empty_time, src/model.py:215-287, and get_terminal_voltage,        *)
(* src/model.py:289-297.                                                   *)
(*                                                                         *)
(* The threshold 1e-10 of the flat test lies below the resolution of the   *)
(* state, so a sample of the trajectory is a number in two parts: hi in    *)
(* the unit of the state (SOC 1e-6, voltage mV) and lo in 1e-11, with lo   *)
(* far below one unit of hi.  sol.eps holds the lo parts of the SOC row.   *)
(* A time computed by interpolation is the exact fraction num / den, in    *)
(* lowest terms with den > 0; None (no result) has den = 0.                *)

Num(hi, lo) == [hi |-> hi, lo |-> lo]

\* a <= b
Leq(a, b) == a.hi < b.hi \/ (a.hi = b.hi /\ a.lo <= b.lo)

RECURSIVE GCD(_, _)
GCD(a, b) == IF b = 0 THEN a ELSE GCD(b, a % b)

Time(n, d) ==
    LET g == GCD(Abs(n), Abs(d))
        sgn == IF d < 0 THEN -1 ELSE 1
    IN [num |-> (sgn * n) \div g, den |-> (sgn * d) \div g]

None == [num |-> 0, den |-> 0]

IsNone(x) == x.den = 0

\* a <= b for two times: by their whole seconds, then by the fractions
TimeLeq(a, b) ==
    LET ia == a.num \div a.den
        ib == b.num \div b.den
    IN ia < ib \/ (ia = ib /\ (a.num % a.den) * b.den <= (b.num % b.den) * a.den)

\* 1e-10 in units of 1e-11 (lines 252 and 273)
FLAT_EPS == 10

\* lines 252, 273: abs(after - before) > 1e-10
differs(after, before) ==
    after.hi # before.hi \/ Abs(after.lo - before.lo) > FLAT_EPS

interpolate_none(t_before, t_after, before, after, threshold) == Time(t_after, 1)

interpolate_from_after(t_before, t_after, before, after, threshold) ==
    LET n == IF after.hi # before.hi THEN threshold.hi - before.hi
                                     ELSE threshold.lo - before.lo
        d == IF after.hi # before.hi THEN after.hi - before.hi
                                     ELSE after.lo - before.lo
    IN Time(t_after * d + n * (t_after - t_before), d)

\* lines 253, 274: t_before + (threshold - before) / (after - before)
\*                            * (t_after - t_before);
\* the quotient is taken on the hi parts when they differ
interpolate(t_before, t_after, before, after, threshold) ==
    LET n == IF after.hi # before.hi THEN threshold.hi - before.hi
                                     ELSE threshold.lo - before.lo
        d == IF after.hi # before.hi THEN after.hi - before.hi
                                     ELSE after.lo - before.lo
    IN Time(t_before * d + n * (t_after - t_before), d)

last_index(idx) == CHOOSE i \in idx : \A j \in idx : i >= j

\* lines 243, 265: np.where(...)[0][0]
first_index(idx) == CHOOSE i \in idx : \A j \in idx : i <= j

\* lines 239-257 and 263-278: the time at which the row x first is at or
\* below the threshold
crossing_time(x, threshold, t) ==
    LET idx == {i \in 1..Len(x) : Leq(x[i], threshold)}
    IN IF idx = {} THEN None
       ELSE LET i == first_index(idx)
            IN IF i > 1
               THEN IF differs(x[i], x[i - 1])
                    THEN interpolate(t[i - 1], t[i], x[i - 1], x[i], threshold)
                    ELSE Time(t[i], 1)
               ELSE Time(t[i], 1)

\* dV_oc/dSOC in 1e-3 V: how the lo part of a SOC sample shows in V_oc
V_oc_slope(SOC) ==
    LET s2 == ((SOC \div 100) * (SOC \div 100)) \div 100
    IN 2650 - (2222 * (SOC \div 100)) \div 1000 + (74919 * (s2 \div 100)) \div 10000

\* line 232: SOC = sol.y[0]
SOC_row(sol) == [i \in 1..Len(sol.t) |-> Num(sol.y[i].SOC, sol.eps[i])]

get_terminal_voltage_nominal(self, SOC, T_batt, U1, U2, I_A) ==
    V_oc(SOC) - quot(I_A * self.R0, 1000000) - U1 - U2

\* lines 289-297
get_terminal_voltage(self, SOC, T_batt, U1, U2, I_A) ==
    LET Voc == V_oc(SOC)
        R0 == get_RC_params(self, SOC, T_batt).R0
    IN Voc - quot(I_A * R0, 1000000) - U1 - U2

V_terminal_array(self, sol) ==
    [i \in 1..Len(sol.t) |->
        Num(V_oc(sol.y[i].SOC) - sol.y[i].U1 - sol.y[i].U2,
            quot(V_oc_slope(sol.y[i].SOC) * sol.eps[i], 1000))]

\* line 261: V_oc_array = np.array([self.V_oc(soc) for soc in SOC])
V_oc_array(self, sol) ==
    [i \in 1..Len(sol.t) |->
        Num(V_oc(sol.y[i].SOC), quot(V_oc_slope(sol.y[i].SOC) * sol.eps[i], 1000))]

latest(empty_times) ==
    CHOOSE x \in {empty_times[k] : k \in 1..Len(empty_times)} :
        \A k \in 1..Len(empty_times) : TimeLeq(empty_times[k], x)

\* line 284: min(empty_times)
earliest(empty_times) ==
    CHOOSE x \in {empty_times[k] : k \in 1..Len(empty_times)} :
        \A k \in 1..Len(empty_times) : TimeLeq(x, empty_times[k])

NotNone(x) == ~IsNone(x)

first_time(t) == Time(t[1], 1)

\* line 287: t[-1]
last_time(t) == Time(t[Len(t)], 1)

\* the locals t_soc_empty and t_voltage_cutoff and the value returned
find_empty_time(self, sol, V_cutoff, SOC_min) ==
    LET t == sol.t
        t_soc_empty == crossing_time(SOC_row(sol), Num(SOC_min, 0), t)
        t_voltage_cutoff == crossing_time(V_oc_array(self, sol), Num(V_cutoff, 0), t)
        empty_times == SelectSeq(<<t_soc_empty, t_voltage_cutoff>>, NotNone)
    IN [t_soc_empty |-> t_soc_empty,
        t_voltage_cutoff |-> t_voltage_cutoff,
        ret |-> IF Len(empty_times) > 0 THEN earliest(empty_times)
                                        ELSE last_time(t)]

---------------------------------------------------------------------------
(* Trajectories handed to find_empty_time *)

MaxLen == 3             \* samples in a trajectory

\* SOC samples around SOC_min = 0.05, at 0 and below 0: (hi, lo)
SOCSamples ==
    {<<60000, 0>>, <<50000, 20>>, <<50000, 5>>, <<50000, 0>>, <<50000, -20>>,
     <<40000, 0>>, <<0, 0>>, <<-200000, 0>>}

\* the other rows of a sample: temperature, U1, U2
OtherRows == {<<298150, 0, 0>>, <<310000, 30, 20>>}

\* t[0] = 100 and a constant spacing
SpacingInputs == {10, 20}

V_cutoffInputs == {2500, V_oc(50000)}
SOC_minInputs == {50000, 45000}

Trajectory(socs, other, dt) ==
    [t |-> [i \in 1..Len(socs) |-> 100 + (i - 1) * dt],
     y |-> [i \in 1..Len(socs) |->
              [SOC |-> socs[i][1], T_batt |-> other[1], U1 |-> other[2], U2 |-> other[3]]],
     eps |-> [i \in 1..Len(socs) |-> socs[i][2]]]

InitEmpty ==
    /\ sc = NoCall /\ run = NoRun /\ calls = NoCalls /\ dis = NoScript
    /\ mc = NoTrials /\ par = NoRuns
    /\ \E n \in 1..MaxLen :
         \E socs \in [1..n -> SOCSamples], other \in OtherRows, dt \in SpacingInputs,
            Vc \in V_cutoffInputs, Sm \in SOC_minInputs :
           fe = [active |-> TRUE, called |-> FALSE, self |-> SmartphoneBatteryModel,
                 sol |-> Trajectory(socs, other, dt), V_cutoff |-> Vc, SOC_min |-> Sm,
                 t_soc_empty |-> None, t_voltage_cutoff |-> None, ret |-> None]

CallFindEmptyTime ==
    /\ fe.active /\ ~fe.called
    /\ LET r == find_empty_time(fe.self, fe.sol, fe.V_cutoff, fe.SOC_min)
       IN fe' = [fe EXCEPT !.called = TRUE, !.t_soc_empty = r.t_soc_empty,
                           !.t_voltage_cutoff = r.t_voltage_cutoff, !.ret = r.ret]
    /\ UNCHANGED <<sc, run, calls, dis, mc, par>>

NextEmpty == CallFindEmptyTime

SpecEmpty == InitEmpty /\ [][NextEmpty]_vars

---------------------------------------------------------------------------
(* Inputs of the solver specification *)

MaxVk == 9
MaxUk == 2
MaxRk == 3
MaxPk == 15

\* open-circuit voltages up to 1.35 V in steps of 0.15 V, and V_oc(SOC = 1)
VocInputs == {k * 150 : k \in 0..MaxVk} \cup {V_oc(1000000)}
\* polarization voltages from -0.05 V in steps of 0.05 V
UInputs == {k * 50 : k \in -1..MaxUk}
\* resistances from -0.025 ohm in steps of 0.025 ohm
R0Inputs == {k * 25000 : k \in -1..MaxRk}
\* power demands from -0.5 W in steps of 0.5 W, and the base power 0.05 W
PInputs == {k * 500 : k \in -1..MaxPk} \cup {50}

InitSolve ==
    /\ sc = NoCall /\ run = NoRun /\ fe = NoFind /\ calls = NoCalls /\ dis = NoScript
    /\ mc = NoTrials /\ par = NoRuns

CallSolveCurrent ==
    /\ ~sc.called
    /\ \E P \in PInputs, V \in VocInputs, u1 \in UInputs, u2 \in UInputs, R \in R0Inputs :
        /\ sc' = [called |-> TRUE, P_total |-> P, V_oc |-> V, U1 |-> u1, U2 |-> u2,
                  R0 |-> R, ret |-> solve_current(P, V, u1, u2, R)]
        /\ UNCHANGED <<run, fe, calls, dis, mc, par>>

NextSolve == CallSolveCurrent

SpecSolve == InitSolve /\ [][NextSolve]_vars

---------------------------------------------------------------------------
(* simulate_discharge_times, src/问题1/caculate.py:15-66: a list of load   *)
(* models is simulated one after the other from the same initial state     *)
(* over the same time span, and find_empty_time is applied to each          *)
(* trajectory.  The integrator steps by max_step.                           *)

\* src/scenery.py:4-54
scenario_video_streaming(t) ==
    LET cycle == t % 300
        level == IF cycle < 60 THEN <<70, 30, 20>>
                 ELSE IF cycle < 90 THEN <<90, 20, 15>>
                 ELSE IF cycle < 150 THEN <<70, 50, 30>>
                 ELSE IF cycle < 180 THEN <<50, 15, 5>>
                 ELSE IF cycle < 240 THEN <<70, 35, 25>>
                 ELSE <<60, 40, 40>>
    IN [screen_on |-> TRUE, brightness |-> level[1], cpu_usage |-> level[2],
        data_rate |-> level[3], gps_on |-> FALSE, T_amb |-> 298150]

\* the constant load of the first phase of video streaming, without T_amb
scenario_constant ==
    [screen_on |-> TRUE, brightness |-> 70, cpu_usage |-> 30, data_rate |-> 20,
     gps_on |-> FALSE]

\* a download at 149 Mbps: 15.05 W
scenario_download == [data_rate |-> 1490]

\* the same download, at 249 Mbps (25.05 W) from t = 6000 s on
scenario_download_boost(t) == [data_rate |-> IF t < 6000 THEN 1490 ELSE 2490]

\* scenario_func(t) of the load model called name
scenario_func(name, t) ==
    CASE name = "video_streaming" -> scenario_video_streaming(t)
      [] name = "gaming" -> scenario_gaming
      [] name = "free" -> scenario_free
      [] name = "constant" -> scenario_constant
      [] name = "download" -> scenario_download
      [] name = "download_boost" -> scenario_download_boost(t)

\* the lists of load models simulated by one script, each from the
\* lightest load to the heaviest
ScenarioLists ==
    {<<"constant">>, <<"free", "video_streaming", "gaming">>,
     <<"download", "download_boost">>}

Horizon == 24 * 3600    \* t_span = (0, 24*3600)

y0_full == [SOC |-> 1000000, T_batt |-> 298150, U1 |-> 0, U2 |-> 0]

sol_start == [t |-> <<0>>, y |-> <<y0_full>>, eps |-> <<0>>]

InitScript ==
    /\ sc = NoCall /\ run = NoRun /\ fe = NoFind /\ calls = NoCalls
    /\ mc = NoTrials /\ par = NoRuns
    /\ \E scenarios \in ScenarioLists :
         dis = [active |-> TRUE, self |-> SmartphoneBatteryModel,
                scenarios |-> scenarios, k |-> 1,
                t |-> 0, y |-> y0_full, sol |-> sol_start, results |-> <<>>]

\* one step of the integrator within simulate
ScriptStep ==
    /\ dis.active /\ dis.k <= Len(dis.scenarios) /\ dis.t < Horizon
    /\ LET h == Min2(MaxStep, Horizon - dis.t)
           r == model_equations(dis.self, dis.t, dis.y,
                                scenario_func(dis.scenarios[dis.k], dis.t))
           y1 == advance(dis.y, r.dy, h)
       IN /\ Finite(r.dy.SOC)
          /\ dis' = [dis EXCEPT !.t = dis.t + h, !.y = y1,
                                !.sol = [t |-> Append(dis.sol.t, dis.t + h),
                                         y |-> Append(dis.sol.y, y1),
                                         eps |-> Append(dis.sol.eps, 0)]]
    /\ UNCHANGED <<sc, run, fe, calls, mc, par>>

\* simulate returns; find_empty_time with its defaults; the next scenario
ScriptRecord ==
    /\ dis.active /\ dis.k <= Len(dis.scenarios) /\ dis.t >= Horizon
    /\ LET empty_time == find_empty_time(dis.self, dis.sol, 2500, 50000).ret
       IN dis' = [dis EXCEPT !.results = Append(@, empty_time), !.k = dis.k + 1,
                             !.t = 0, !.y = y0_full, !.sol = sol_start]
    /\ UNCHANGED <<sc, run, fe, calls, mc, par>>

NextScript == ScriptStep \/ ScriptRecord

SpecScript == InitScript /\ [][NextScript]_vars

---------------------------------------------------------------------------
(* Calls of component_power, V_oc, model_equations and                     *)
(* get_terminal_voltage on one instance, in any order, with one argument   *)
(* list.  A method is taken as the instance after the call and the value   *)
(* returned.                                                               *)

call_component_power_on_self(self, t, scenario) ==
    LET power == component_power(self, t, scenario)
    IN [self |-> [self EXCEPT !.P_base = power], ret |-> power]

\* lines 86-111: power is a local; no field is assigned
call_component_power(self, t, scenario) ==
    [self |-> self, ret |-> component_power(self, t, scenario)]

\* lines 49-52
call_V_oc(self, SOC) == [self |-> self, ret |-> V_oc(SOC)]

\* lines 146-200
call_model_equations(self, t, y, scenario) ==
    [self |-> self, ret |-> model_equations(self, t, y, scenario)]

\* lines 289-297
call_get_terminal_voltage(self, SOC, T_batt, U1, U2, I_A) ==
    [self |-> self, ret |-> get_terminal_voltage(self, SOC, T_batt, U1, U2, I_A)]

MaxCalls == 3           \* calls made on the instance

Keys == {"screen_on", "brightness", "cpu_usage", "data_rate", "gps_on", "T_amb"}

\* the load sample with the keys K
LoadSample(K, screen_on, gps_on) ==
    [k \in K |-> CASE k = "screen_on" -> screen_on
                   [] k = "brightness" -> 70
                   [] k = "cpu_usage" -> 30
                   [] k = "data_rate" -> 20
                   [] k = "gps_on" -> gps_on
                   [] k = "T_amb" -> 273150]

\* everything on at full level, 40 Mbps
scenario_heavy == [screen_on |-> TRUE, brightness |-> 100, cpu_usage |-> 100,
                   data_rate |-> 400, gps_on |-> TRUE, T_amb |-> 298150]

LoadSampleInputs ==
    {LoadSample(K, s, g) : K \in SUBSET Keys, s \in BOOLEAN, g \in BOOLEAN}
        \cup {scenario_heavy}

\* the start, two hours, and times up to and beyond 1 / k_aging = 200000
TimeInputs == {0, 7200, 200000, 250000}

StateInputs ==
    {[SOC |-> soc, T_batt |-> 298150, U1 |-> u, U2 |-> u] :
        soc \in {1000000, 50000, 0}, u \in {0, 30}}

InitCalls ==
    /\ sc = NoCall /\ run = NoRun /\ fe = NoFind /\ dis = NoScript
    /\ mc = NoTrials /\ par = NoRuns
    /\ \E t \in TimeInputs, y \in StateInputs, scenario \in LoadSampleInputs :
         calls = [active |-> TRUE, self |-> SmartphoneBatteryModel,
                  t |-> t, y |-> y, scenario |-> scenario,
                  power |-> <<>>, voc |-> <<>>, eq |-> <<>>, vt |-> <<>>]

CallsMade == Len(calls.power) + Len(calls.voc) + Len(calls.eq) + Len(calls.vt)

CallComponentPower ==
    /\ calls.active /\ CallsMade < MaxCalls
    /\ LET r == call_component_power(calls.self, calls.t, calls.scenario)
       IN calls' = [calls EXCEPT !.self = r.self, !.power = Append(@, r.ret)]
    /\ UNCHANGED <<sc, run, fe, dis, mc, par>>

CallVoc ==
    /\ calls.active /\ CallsMade < MaxCalls
    /\ LET r == call_V_oc(calls.self, calls.y.SOC)
       IN calls' = [calls EXCEPT !.self = r.self, !.voc = Append(@, r.ret)]
    /\ UNCHANGED <<sc, run, fe, dis, mc, par>>

CallModelEquations ==
    /\ calls.active /\ CallsMade < MaxCalls
    /\ LET r == call_model_equations(calls.self, calls.t, calls.y, calls.scenario)
       IN calls' = [calls EXCEPT !.self = r.self, !.eq = Append(@, r.ret)]
    /\ UNCHANGED <<sc, run, fe, dis, mc, par>>

\* the terminal voltage at the current model_equations solved for
CallTerminalVoltage ==
    /\ calls.active /\ CallsMade < MaxCalls /\ Len(calls.eq) > 0
    /\ LET I_A == calls.eq[Len(calls.eq)].I_A
           r == call_get_terminal_voltage(calls.self, calls.y.SOC, calls.y.T_batt,
                                          calls.y.U1, calls.y.U2, I_A)
       IN calls' = [calls EXCEPT !.self = r.self,
                                 !.vt = Append(@, [I_A |-> I_A, ret |-> r.ret])]
    /\ UNCHANGED <<sc, run, fe, dis, mc, par>>

NextCalls ==
    CallComponentPower \/ CallVoc \/ CallModelEquations \/ CallTerminalVoltage

SpecCalls == InitCalls /\ [][NextCalls]_vars

---------------------------------------------------------------------------
(* Claims about solve_current (specification SpecSolve).  The conditions   *)
(* are restated on the arguments of the call, not through the operators    *)
(* of the solver.                                                          *)

sc_V_eff == sc.V_oc - sc.U1 - sc.U2

GuardPasses == sc.called /\ sc_V_eff > 100 /\ sc.P_total > 0 /\ sc.R0 > 0

\* V_eff^2 - 4*R0*P < 0, exactly: 250 * V_eff^2 < R0 * P in model units
DeltaNegative ==
    LET q == (sc.R0 * sc.P_total) \div 250
        r == (sc.R0 * sc.P_total) % 250
    IN sc_V_eff * sc_V_eff < q \/ (sc_V_eff * sc_V_eff = q /\ r > 0)

\* V_eff / (2*R0) >= 5 A
TangentAtLeast5A == 100 * sc_V_eff >= sc.R0

\* ret = floor(V_eff / (2*R0)) at the 1 mA resolution of the model
RetIsTangent ==
    /\ sc.ret * sc.R0 <= 500000 * sc_V_eff
    /\ 500000 * sc_V_eff < (sc.ret + 1) * sc.R0

\* the smaller root of R0*I^2 - V_eff*I + P = 0 is <= 5 A
RootAtMost5A == 100 * sc_V_eff <= sc.R0 \/ 200 * sc_V_eff - sc.R0 >= 40 * sc.P_total

\* I * (V_eff - I*R0) in microwatts
DeliveredPower(I) == I * sc_V_eff - (((I * sc.R0) \div 2000) * I) \div 500

\* C1: solve_current returns exactly 0 whenever V_eff <= 0.1, or
\* P_total <= 0, or R0 <= 0, whatever the other arguments are.
C1_ZeroCurrent ==
    (sc.called /\ (sc_V_eff <= 100 \/ sc.P_total <= 0 \/ sc.R0 <= 0)) => sc.ret = 0

\* only the V_eff trigger holds, at the threshold itself
C1_Witness ==
    sc.called /\ sc_V_eff = 100 /\ sc.P_total > 0 /\ sc.R0 > 0 /\ sc.ret = 0

\* C2: the value returned by solve_current lies in [0, 5] A for every input;
\* with a negative discriminant and a tangent-point current above 5 A the
\* result is exactly 5 A.
C2_Clamped ==
    sc.called =>
        /\ 0 <= sc.ret /\ sc.ret <= 5000
        /\ (GuardPasses /\ DeltaNegative /\ TangentAtLeast5A) => sc.ret = 5000

C2_Witness ==
    GuardPasses /\ DeltaNegative /\ 100 * sc_V_eff > sc.R0 /\ sc.ret = 5000

\* C3: with the guard passed and a negative discriminant, solve_current
\* returns a number (no error): the tangent-point current V_eff/(2*R0),
\* clamped to [0, 5] A.
C3_TangentFallback ==
    (GuardPasses /\ DeltaNegative) =>
        IF TangentAtLeast5A THEN sc.ret = 5000 ELSE RetIsTangent

C3_Witness ==
    GuardPasses /\ DeltaNegative /\ ~TangentAtLeast5A /\ sc.ret > 0 /\ sc.ret < 5000

\* C4: with the guard passed, a discriminant >= 0 and a smaller root <= 5 A,
\* the returned current satisfies the power balance I*(V_eff - I*R0) = P_total
\* to within one unit (1 mA) of current resolution
\* (V_eff microwatts, plus 50 microwatts of rounding), and I <= V_eff/(2*R0).
C4_SmallerRoot ==
    (GuardPasses /\ ~DeltaNegative /\ RootAtMost5A) =>
        /\ Abs(DeliveredPower(sc.ret) - 1000 * sc.P_total) <= sc_V_eff + 50
        /\ (TangentAtLeast5A \/ sc.ret * sc.R0 <= 500000 * sc_V_eff)

C4_Witness ==
    /\ GuardPasses /\ ~DeltaNegative /\ RootAtMost5A
    /\ sc.P_total >= 500 /\ sc.ret > 0 /\ sc.ret < 5000
    /\ sc.ret * sc.R0 < 500000 * sc_V_eff

---------------------------------------------------------------------------
(* Claims about model_equations along a run (specification SpecRun) *)

Samples == 1..Len(run.sol.t)

C6_EmptyIsAbsorbing ==
    run.active =>
        /\ \A i \in Samples :
             (i > 1 /\ run.sol.y[i - 1].SOC <= 0) => run.sol.y[i] = run.sol.y[i - 1]
        /\ (Len(run.sol.t) > 1 /\ run.sol.y[Len(run.sol.t) - 1].SOC <= 0)
              => run.f = zero_derivative
        /\ run.queries =
              Cardinality({i \in Samples : i < Len(run.sol.t) /\ run.sol.y[i].SOC > 0})
              + (IF run.status = "failed" THEN 1 ELSE 0)

\* a run that crosses zero under load and then takes a further step
C6_Witness ==
    /\ run.active /\ Len(run.sol.t) >= 3
    /\ run.sol.y[1].SOC > 0
    /\ run.sol.y[Len(run.sol.t) - 1].SOC < 0
    /\ run.sol.y[Len(run.sol.t) - 1].U1 > 0
    /\ run.sol.y[Len(run.sol.t)] = run.sol.y[Len(run.sol.t) - 1]
    /\ run.sol.t[Len(run.sol.t)] > run.sol.t[Len(run.sol.t) - 1]

Returned == run.active /\ run.status \in {"finished", "failed"}

\* C16: when the integrator fails before the end of the time span, simulate
\* hands its caller a result whose success flag is false and whose last
\* time is the time reached; a result that stops short of t_span[1] never
\* carries a true success flag, and a run that returned has either
\* exhausted its time span or reported the failure.
C16_FailureReported ==
    Returned =>
        LET last == run.ret.t[Len(run.ret.t)]
        IN /\ last < run.t_end => (~run.ret.success /\ run.ret.status = -1)
           /\ last = run.t
           /\ run.ret.success \/ run.status = "failed"
           /\ run.ret.success => last = run.t_end

\* a run that failed after an accepted step
C16_Witness ==
    /\ Returned /\ run.status = "failed" /\ Len(run.ret.t) >= 2
    /\ run.ret.t[Len(run.ret.t)] < run.t_end
    /\ ~run.ret.success

\* C20: in every state reached by a run started with SOC in (0,1] and a
\* positive temperature, the adjusted R0, R1, R2 handed to the current
\* solver and the Q_eff used for the SOC rate are strictly positive.
C20_PositiveParameters ==
    (run.active /\ run.eval.solved) =>
        /\ run.eval.R0 > 0 /\ run.eval.R1 > 0 /\ run.eval.R2 > 0
        /\ run.eval.Q_eff > 0

---------------------------------------------------------------------------
(* Claims about find_empty_time (specification SpecEmpty).  The rows are   *)
(* read from the trajectory of the call.                                   *)

fe_t(i) == fe.sol.t[i]

fe_SOC(i) == fe.sol.y[i].SOC

fe_eps(i) == fe.sol.eps[i]

fe_N == Len(fe.sol.t)

\* sample i is at or below SOC_min
AtOrBelowSOCMin(i) ==
    fe_SOC(i) < fe.SOC_min \/ (fe_SOC(i) = fe.SOC_min /\ fe_eps(i) <= 0)

\* sample i is the first one at or below SOC_min
FirstAtSOCMin(i) ==
    /\ i \in 1..fe_N /\ AtOrBelowSOCMin(i)
    /\ \A j \in 1..fe_N : j < i => ~AtOrBelowSOCMin(j)

\* x is the time of the line through (t_before, before) and (t_after, after)
\* at the level threshold
OnTheLine(x, t_before, t_after, before, after, threshold) ==
    (x.num - t_before * x.den) * (after - before)
        = (threshold - before) * (t_after - t_before) * x.den

\* C7: the SOC criterion takes the first index i with SOC[i] <= SOC_min;
\* for i > 0 it returns the linearly interpolated crossing time (105 for
\* SOC = [0.06, 0.04] at t = [100, 110] with SOC_min = 0.05), and t[i] when
\* SOC[i] and SOC[i-1] differ by no more than 1e-10; for i = 0 it returns t[0];
\* with no such index it yields no result.
C7_SOCCriterion ==
    fe.called =>
        /\ (\A i \in 1..fe_N : ~AtOrBelowSOCMin(i)) => IsNone(fe.t_soc_empty)
        /\ \A i \in 1..fe_N : FirstAtSOCMin(i) =>
             /\ ~IsNone(fe.t_soc_empty)
             /\ i = 1 => fe.t_soc_empty = [num |-> fe_t(1), den |-> 1]
             /\ (i > 1 /\ fe_SOC(i) # fe_SOC(i - 1)) =>
                   OnTheLine(fe.t_soc_empty, fe_t(i - 1), fe_t(i),
                             fe_SOC(i - 1), fe_SOC(i), fe.SOC_min)
             /\ (i > 1 /\ fe_SOC(i) = fe_SOC(i - 1)
                       /\ Abs(fe_eps(i) - fe_eps(i - 1)) > 10) =>
                   OnTheLine(fe.t_soc_empty, fe_t(i - 1), fe_t(i),
                             fe_eps(i - 1), fe_eps(i), 0)
             /\ (i > 1 /\ fe_SOC(i) = fe_SOC(i - 1)
                       /\ Abs(fe_eps(i) - fe_eps(i - 1)) <= 10) =>
                   fe.t_soc_empty = [num |-> fe_t(i), den |-> 1]
        /\ (fe_N = 2 /\ fe_SOC(1) = 60000 /\ fe_SOC(2) = 40000 /\ fe_t(2) = 110
            /\ fe.SOC_min = 50000) => fe.t_soc_empty = [num |-> 105, den |-> 1]

\* the example of the claim, and a flat crossing after a first sample above
C7_Witness ==
    /\ fe.called /\ fe_N = 2 /\ fe_SOC(1) = 60000 /\ fe_SOC(2) = 40000
    /\ fe_t(1) = 100 /\ fe_t(2) = 110 /\ fe.SOC_min = 50000
    /\ fe.t_soc_empty = [num |-> 105, den |-> 1]

C7_WitnessFlat ==
    /\ fe.called /\ fe_N = 2 /\ FirstAtSOCMin(2)
    /\ fe_SOC(1) = fe_SOC(2) /\ fe_eps(1) - fe_eps(2) = 5
    /\ fe.t_soc_empty = [num |-> fe_t(2), den |-> 1]

fe_Voc(i) == V_oc(fe_SOC(i))

\* the open-circuit voltage of sample i is at or below V_cutoff (V_oc is
\* increasing, so the part of the SOC below its resolution decides a tie)
AtOrBelowCutoff(i) ==
    fe_Voc(i) < fe.V_cutoff \/ (fe_Voc(i) = fe.V_cutoff /\ fe_eps(i) <= 0)

FirstAtCutoff(i) ==
    /\ i \in 1..fe_N /\ AtOrBelowCutoff(i)
    /\ \A j \in 1..fe_N : j < i => ~AtOrBelowCutoff(j)

\* the trajectory of the call with other temperature and polarization rows
WithOtherRows(T, U1, U2) ==
    [fe.sol EXCEPT !.y = [i \in 1..fe_N |->
        [SOC |-> fe_SOC(i), T_batt |-> T, U1 |-> U1, U2 |-> U2]]]

\* C8: the voltage criterion is computed from V_oc(SOC) of each sample only:
\* it takes the first index where V_oc(SOC) <= V_cutoff and interpolates
\* linearly in V_oc between that sample and the previous one, so its time
\* depends only on the time and SOC rows of the trajectory.
C8_VoltageCriterion ==
    fe.called =>
        /\ (\A i \in 1..fe_N : ~AtOrBelowCutoff(i)) => IsNone(fe.t_voltage_cutoff)
        /\ \A i \in 1..fe_N : FirstAtCutoff(i) =>
             /\ ~IsNone(fe.t_voltage_cutoff)
             /\ i = 1 => fe.t_voltage_cutoff = [num |-> fe_t(1), den |-> 1]
             /\ (i > 1 /\ fe_Voc(i) # fe_Voc(i - 1)) =>
                   OnTheLine(fe.t_voltage_cutoff, fe_t(i - 1), fe_t(i),
                             fe_Voc(i - 1), fe_Voc(i), fe.V_cutoff)
        /\ \A rows \in {<<298150, 0, 0>>, <<310000, 30, 20>>, <<280000, 900, 900>>} :
             find_empty_time(fe.self, WithOtherRows(rows[1], rows[2], rows[3]),
                             fe.V_cutoff, fe.SOC_min).t_voltage_cutoff
               = fe.t_voltage_cutoff

\* polarized samples whose terminal voltage is below the cut-off one sample
\* before the open-circuit voltage is; the criterion interpolates in V_oc
C8_Witness ==
    /\ fe.called /\ fe_N = 3 /\ FirstAtCutoff(3)
    /\ fe.sol.y[2].U1 > 0
    /\ fe_Voc(2) - fe.sol.y[2].U1 - fe.sol.y[2].U2 <= fe.V_cutoff
    /\ fe_t(2) * fe.t_voltage_cutoff.den < fe.t_voltage_cutoff.num
    /\ fe.t_voltage_cutoff.num < fe_t(3) * fe.t_voltage_cutoff.den

\* C9: find_empty_time checks the terminal voltage, V_oc - I*R0 - U1 - U2,
\* against the cut-off voltage: once a sample's terminal voltage (already
\* without load current) is at or below V_cutoff, the time returned is no
\* later than that sample.
fe_Vterminal(j) ==
    get_terminal_voltage(fe.self, fe_SOC(j), fe.sol.y[j].T_batt,
                         fe.sol.y[j].U1, fe.sol.y[j].U2, 0)

C9_TerminalVoltageChecked ==
    fe.called =>
        \A j \in 1..fe_N :
            (fe_Vterminal(j) < fe.V_cutoff
               \/ (fe_Vterminal(j) = fe.V_cutoff /\ fe_eps(j) <= 0))
              => fe.ret.num <= fe_t(j) * fe.ret.den

Produced == {x \in {fe.t_soc_empty, fe.t_voltage_cutoff} : ~IsNone(x)}

\* C10: when at least one criterion produced a time, find_empty_time
\* returns the earliest of the times produced; a criterion that did not
\* trigger is ignored.
C10_EarliestOfProduced ==
    (fe.called /\ Produced # {}) =>
        /\ fe.ret \in Produced
        /\ \A x \in Produced : fe.ret.num * x.den <= x.num * fe.ret.den

\* both criteria produced a time and the voltage time, the second of the
\* list, is the earlier one
C10_Witness ==
    /\ fe.called /\ ~IsNone(fe.t_soc_empty) /\ ~IsNone(fe.t_voltage_cutoff)
    /\ fe.t_voltage_cutoff.num * fe.t_soc_empty.den
         < fe.t_soc_empty.num * fe.t_voltage_cutoff.den
    /\ fe.ret = fe.t_voltage_cutoff

\* only the SOC criterion produced a time
C10_WitnessOne ==
    /\ fe.called /\ ~IsNone(fe.t_soc_empty) /\ IsNone(fe.t_voltage_cutoff)
    /\ fe.ret = fe.t_soc_empty

NeverTriggered ==
    \A i \in 1..fe_N : ~AtOrBelowSOCMin(i) /\ ~AtOrBelowCutoff(i)

\* C11: when no sample has SOC <= SOC_min and none has V_oc(SOC) <= V_cutoff,
\* find_empty_time returns the last time point of the trajectory, t[-1].
C11_FallbackIsLastTime ==
    (fe.called /\ NeverTriggered) => fe.ret = [num |-> fe_t(fe_N), den |-> 1]

\* three samples above both thresholds, the last one just above SOC_min
C11_Witness ==
    /\ fe.called /\ NeverTriggered /\ fe_N = 3
    /\ fe_SOC(3) = fe.SOC_min /\ fe_eps(3) > 0
    /\ fe.ret = [num |-> fe_t(3), den |-> 1] /\ fe_t(3) > fe_t(1)

\* C12: the caller can always tell a detected endpoint from the fallback
\* of C11: when a criterion produced a time, the value returned differs
\* from t[-1], the value returned when none did.
C12_EndpointDistinguishable ==
    (fe.called /\ Produced # {}) => fe.ret # [num |-> fe_t(fe_N), den |-> 1]

---------------------------------------------------------------------------
(* Claims about the methods called one by one (specification SpecCalls) *)

Present(key) == key \in DOMAIN calls.scenario

\* the sum of the claim in mW: 0.02 * 60 * 1.14 = 1.368 W per unit of
\* brightness, 0.5 * 2^3 = 4 W per unit of CPU usage, 0.1 W per Mbps
ExpectedPower ==
    50
    + (IF Present("screen_on") /\ calls.scenario["screen_on"]
       THEN (1368 * (IF Present("brightness") THEN calls.scenario["brightness"]
                                              ELSE 50)) \div 100
       ELSE 0)
    + (IF Present("cpu_usage") THEN 100 + 40 * calls.scenario["cpu_usage"] ELSE 0)
    + (IF Present("data_rate") THEN 100 + 10 * calls.scenario["data_rate"] ELSE 0)
    + (IF Present("gps_on") /\ calls.scenario["gps_on"] THEN 100 ELSE 0)

\* C13: for every subset of the keys screen_on, brightness, cpu_usage,
\* data_rate, gps_on, T_amb present in the load sample, component_power
\* returns the base power plus the contributions of the components whose
\* key is present (screen only if on, GPS only if on), a component without
\* its key contributing zero; model_equations works with the same sum.
C13_AdditivePower ==
    calls.active =>
        /\ \A k \in 1..Len(calls.power) : calls.power[k] = ExpectedPower
        /\ \A k \in 1..Len(calls.eq) :
             calls.y.SOC > 0 =>
                 calls.eq[k].solved /\ calls.eq[k].P_total = ExpectedPower

\* a load sample with the CPU and a GPS that is on, and nothing else
C13_Witness ==
    /\ calls.active /\ DOMAIN calls.scenario = {"cpu_usage", "gps_on"}
    /\ calls.scenario["gps_on"]
    /\ calls.power = <<1450>>
    /\ Len(calls.eq) > 0 /\ calls.y.SOC > 0

\* a screen that is on without a brightness; the empty load sample
C13_WitnessDefault ==
    /\ calls.active /\ DOMAIN calls.scenario = {"screen_on"}
    /\ calls.scenario["screen_on"] /\ calls.power = <<734>>

C13_WitnessEmpty ==
    calls.active /\ DOMAIN calls.scenario = {} /\ calls.power = <<50>>

C15_AgingGuarded ==
    (calls.active /\ 1000000 - calls.self.k_aging * calls.t <= 0) =>
        \A k \in 1..Len(calls.eq) : Finite(calls.eq[k].dy.SOC)

calls_V_eff == V_oc(calls.y.SOC) - calls.y.U1 - calls.y.U2

\* the balance R0*I^2 - V_eff*I + P = 0 has a real root below 5 A and
\* solve_current took it
UnclampedRoot(e) ==
    LET q == (e.R0 * e.P_total) \div 250
        r == (e.R0 * e.P_total) % 250
        V2 == calls_V_eff * calls_V_eff
    IN /\ e.solved /\ calls_V_eff > 100 /\ e.P_total > 0
       /\ (V2 > q \/ (V2 = q /\ r = 0))
       /\ e.I_A < 5000

\* C19: get_terminal_voltage returns V_oc(SOC) - I*R0 - U1 - U2 with the
\* R0 that model_equations passed to solve_current for the same SOC and
\* temperature, so for a current from the unclamped root branch
\* I * V_terminal equals the requested power (to within one unit of the
\* current and of the voltage).
C19_TerminalVoltage ==
    (calls.active /\ Len(calls.eq) > 0) =>
        LET e == calls.eq[Len(calls.eq)]
        IN \A k \in 1..Len(calls.vt) :
             LET v == calls.vt[k]
             IN /\ e.solved =>
                     v.ret = V_oc(calls.y.SOC) - quot(v.I_A * e.R0, 1000000)
                             - calls.y.U1 - calls.y.U2
                /\ UnclampedRoot(e) =>
                     Abs(v.I_A * v.ret - 1000 * e.P_total)
                         <= calls_V_eff + v.I_A + 50

\* nearly 3 A at SOC 0.05, where the adjusted R0 is 0.07375 ohm
C19_Witness ==
    /\ calls.active /\ Len(calls.eq) > 0 /\ Len(calls.vt) > 0
    /\ UnclampedRoot(calls.eq[1])
    /\ calls.eq[1].R0 = 73750 /\ calls.vt[1].I_A > 2000
    /\ calls.vt[1].ret < calls_V_eff

---------------------------------------------------------------------------
(* Claims about whole discharges (specification SpecScript) *)

\* the empty-time found for the i-th load model of the script
result(i) == dis.results[i]

\* a < b and a <= b for two times, by whole seconds and then by fractions
Earlier(a, b) ==
    LET ia == a.num \div a.den
        ib == b.num \div b.den
    IN ia < ib \/ (ia = ib /\ (a.num % a.den) * b.den < (b.num % b.den) * a.den)

NotLater(a, b) == ~Earlier(b, a)

\* C17: with the default parameters, the initial state [1.0, 298.15, 0, 0]
\* and the constant load {screen on, brightness 0.7, CPU 0.3, 2 Mbps, GPS
\* off}, simulating over (0, 24*3600) s with max_step = 60 and applying
\* find_empty_time gives a time strictly between 0 and 24*3600 s.
C17_DepletesWithinHorizon ==
    (dis.active /\ dis.scenarios = <<"constant">> /\ Len(dis.results) = 1) =>
        /\ result(1).den > 0
        /\ result(1).num > 0
        /\ result(1).num < 86400 * result(1).den

\* the run was made and its empty-time lies in the thirteenth hour
C17_Witness ==
    /\ dis.active /\ dis.scenarios = <<"constant">> /\ Len(dis.results) = 1
    /\ result(1).den > 0
    /\ result(1).num \div result(1).den \in (12 * 3600)..(13 * 3600)

\* the instants at which the load models of the scripts change level
LoadInstants == {0, 60, 90, 150, 180, 240, 5940, 6000, 6060}

\* load model a demands no more power than load model b at every instant
LowerDemand(a, b) ==
    \A t \in LoadInstants :
        component_power(dis.self, t, scenario_func(a, t))
            <= component_power(dis.self, t, scenario_func(b, t))

\* C18 as claimed: idle empties later than video streaming, and a load
\* model with lower power demand at every instant never yields an earlier
\* empty-time, whatever the two load models are.
C18_LowerLoadNeverEarlier ==
    dis.active =>
        \A i, j \in 1..Len(dis.results) :
            (i < j /\ LowerDemand(dis.scenarios[i], dis.scenarios[j]))
                => NotLater(result(j), result(i))

ShippedScenarios == {"free", "video_streaming", "gaming"}

\* C18 as amended: over the same horizon and initial state the idle
\* scenario empties later than video streaming, and among the scenarios
\* free, video streaming and gaming the one with the lower power demand at
\* every instant never yields an earlier empty-time.
C18_IdleOutlastsVideo ==
    dis.active =>
        \A i, j \in 1..Len(dis.results) :
            (/\ i < j
             /\ dis.scenarios[i] \in ShippedScenarios
             /\ dis.scenarios[j] \in ShippedScenarios
             /\ LowerDemand(dis.scenarios[i], dis.scenarios[j]))
                => /\ NotLater(result(j), result(i))
                   /\ (dis.scenarios[i] = "free" /\ dis.scenarios[j] = "video_streaming")
                         => Earlier(result(j), result(i))

\* idle ran out of horizon, video streaming and gaming emptied the battery
C18_Witness ==
    /\ dis.active /\ dis.scenarios = <<"free", "video_streaming", "gaming">>
    /\ Len(dis.results) = 3
    /\ LowerDemand("free", "video_streaming") /\ LowerDemand("video_streaming", "gaming")
    /\ Earlier(result(3), result(2)) /\ Earlier(result(2), result(1))

---------------------------------------------------------------------------
(* Further claims about solve_current (specification SpecSolve) *)

\* V_eff^2 - 4*R0*P = 0, exactly
DeltaZero ==
    /\ sc_V_eff * sc_V_eff = (sc.R0 * sc.P_total) \div 250
    /\ (sc.R0 * sc.P_total) % 250 = 0

\* the current for the power demand P, the other arguments being those of
\* the call
CurrentFor(P) == solve_current(P, sc.V_oc, sc.U1, sc.U2, sc.R0)

\* C29: for fixed V_oc, U1, U2 and R0, solve_current is non-decreasing in
\* P_total (a larger power demand never yields a smaller current), and at
\* discriminant = 0 the result is the tangent-point current V_eff/(2*R0)
\* (clamped), on which both branches agree.
C29_MonotoneInPower ==
    sc.called =>
        /\ \A P \in PInputs : P >= sc.P_total => CurrentFor(P) >= sc.ret
        /\ (GuardPasses /\ DeltaZero) =>
               IF TangentAtLeast5A THEN sc.ret = 5000 ELSE RetIsTangent

\* a current on the root branch, with a larger demand on the tangent branch
\* that yields a strictly larger current
C29_Witness ==
    /\ GuardPasses /\ ~DeltaNegative /\ sc.ret > 0 /\ sc.ret < 5000
    /\ \E P \in PInputs :
          /\ P > sc.P_total
          /\ sc_V_eff * sc_V_eff < (sc.R0 * P) \div 250
          /\ CurrentFor(P) > sc.ret

\* the discriminant is exactly zero: V_eff = 1 V, R0 = 0.05 ohm, P = 5 W
C29_WitnessZero == GuardPasses /\ DeltaZero /\ sc.ret = 5000

\* V_eff - I*R0 for the returned current, in microvolts, rounded down
TerminalVoltage == 1000 * sc_V_eff - (sc.ret * sc.R0 + 999) \div 1000

---------------------------------------------------------------------------
(* Further claims about find_empty_time (specification SpecEmpty) *)

\* the time x lies in (t[i-1], t[i]]; a sample before the crossing that
\* exceeds the threshold by less than the resolution of the state (above
\* is FALSE) puts x within 1e-5 of a step after t[i-1], which the model
\* rounds to t[i-1]
InStep(x, i, above) ==
    /\ ~IsNone(x)
    /\ fe_t(i - 1) * x.den <= x.num
    /\ above => fe_t(i - 1) * x.den < x.num
    /\ x.num <= fe_t(i) * x.den

C26_FirstSampleEmpty ==
    fe.called =>
        /\ AtOrBelowSOCMin(1) => fe.t_soc_empty = [num |-> fe_t(1), den |-> 1]
        /\ AtOrBelowCutoff(1) => fe.t_voltage_cutoff = [num |-> fe_t(1), den |-> 1]
        /\ (AtOrBelowSOCMin(1) \/ AtOrBelowCutoff(1)) =>
              fe.ret = [num |-> fe_t(1), den |-> 1]

\* the first sample is at SOC_min, the second above it and the third below
C26_Witness ==
    /\ fe.called /\ fe_N = 3 /\ AtOrBelowSOCMin(1) /\ ~AtOrBelowCutoff(1)
    /\ ~AtOrBelowSOCMin(2) /\ AtOrBelowSOCMin(3)
    /\ fe.ret = [num |-> fe_t(1), den |-> 1]

\* states of charge from 0 to 1 in steps of 0.05
SOCGrid == {k * 50000 : k \in 0..20}

DefaultThresholds == fe.V_cutoff = 2500 /\ fe.SOC_min = 50000

\* C27: V_oc is increasing in SOC and V_oc(SOC) >= 3.39 V > 2.5 V for
\* SOC >= 0; so with the default thresholds (V_cutoff = 2.5, SOC_min =
\* 0.05) and SOC samples that are all >= 0 the voltage criterion does not
\* trigger, and find_empty_time returns the time of the SOC criterion, or
\* t[-1] when no sample is at or below 0.05.
C27_VoltageNeverFirst ==
    /\ \A s \in SOCGrid : V_oc(s) >= 3390
    /\ \A s \in SOCGrid : s > 0 => V_oc(s) > V_oc(s - 50000)
    /\ (fe.called /\ DefaultThresholds /\ \A i \in 1..fe_N : fe_SOC(i) >= 0) =>
          /\ \A i \in 1..fe_N : fe_Voc(i) >= 3390
          /\ IsNone(fe.t_voltage_cutoff)
          /\ IF \E i \in 1..fe_N : AtOrBelowSOCMin(i)
             THEN ~IsNone(fe.t_soc_empty) /\ fe.ret = fe.t_soc_empty
             ELSE fe.ret = [num |-> fe_t(fe_N), den |-> 1]

\* a trajectory that ends at SOC = 0: the SOC criterion gives the time
C27_Witness ==
    /\ fe.called /\ DefaultThresholds /\ fe_N = 3
    /\ fe_SOC(1) = 60000 /\ fe_SOC(2) = 40000 /\ fe_SOC(3) = 0
    /\ IsNone(fe.t_voltage_cutoff)
    /\ fe.ret = [num |-> fe_t(1) + (fe_t(2) - fe_t(1)) \div 2, den |-> 1]

\* no sample at or below 0.05: the last time point
C27_WitnessNever ==
    /\ fe.called /\ DefaultThresholds /\ fe_N = 2
    /\ fe_SOC(1) = 60000 /\ fe_SOC(2) = 50000 /\ fe_eps(2) > 0
    /\ fe.ret = [num |-> fe_t(2), den |-> 1]

---------------------------------------------------------------------------
(* Further claims about the methods (specification SpecCalls) *)

\* R * (1 + 0.5 * (1 - SOC)) for a nominal resistance R that is a multiple
\* of 2000 micro-ohm
AtSOC(R, SOC) == ((R \div 2000) * (3000000 - SOC)) \div 1000

\* states of charge from 0 to 1 in steps of 0.05 that lie below SOC
LowerSOC(SOC) == {s \in {k * 50000 : k \in 0..20} : s < SOC}

TemperatureGrid == {273150, 298150, 318150}

\* C22: get_RC_params multiplies R0, R1 and R2 by one and the same factor
\* (1 + 0.5*(1 - SOC)) * exp(k*(1/T - 1/T_ref)): the returned values keep
\* the nominal ratios 5 : 3 : 2, they are the nominal values at SOC = 1 and
\* T = T_ref, and at a fixed T a lower SOC gives strictly larger values.
C22_CommonScaling ==
    calls.active =>
        \A k \in 1..Len(calls.eq) :
            LET e == calls.eq[k]
            IN e.solved =>
                /\ 3 * e.R0 = 5 * e.R1 /\ 2 * e.R1 = 3 * e.R2
                /\ e.R0 = AtSOC(50000, calls.y.SOC)
                /\ e.R1 = AtSOC(30000, calls.y.SOC)
                /\ e.R2 = AtSOC(20000, calls.y.SOC)
                /\ (calls.y.SOC = 1000000 /\ calls.y.T_batt = 298150) =>
                      (e.R0 = 50000 /\ e.R1 = 30000 /\ e.R2 = 20000)
                /\ \A s \in LowerSOC(calls.y.SOC), T \in TemperatureGrid :
                      LET lower == get_RC_params(calls.self, s, T)
                          here == get_RC_params(calls.self, calls.y.SOC, T)
                      IN /\ lower.R0 > here.R0 /\ lower.R1 > here.R1
                         /\ lower.R2 > here.R2
                         /\ 3 * lower.R0 = 5 * lower.R1 /\ 2 * lower.R1 = 3 * lower.R2

\* the resistances at SOC = 0.05: 1.475 times the nominal ones
C22_Witness ==
    /\ calls.active /\ Len(calls.eq) > 0 /\ calls.eq[1].solved
    /\ calls.y.SOC = 50000
    /\ calls.eq[1].R0 = 73750 /\ calls.eq[1].R1 = 44250 /\ calls.eq[1].R2 = 29500

\* C23: dU1/dt = (I*R1 - U1)/tau1 and dU2/dt = (I*R2 - U2)/tau2 with the
\* adjusted R1 and R2 in the numerator and the time constants tau1 = 60 s
\* and tau2 = 100 s, fixed from the nominal R1*C1 and R2*C2 at construction
\* and not recomputed from the adjusted resistances.
C23_FixedTimeConstants ==
    calls.active =>
        /\ calls.self.tau1 = 60 /\ calls.self.tau2 = 100
        /\ 1000000 * calls.self.tau1 = SmartphoneBatteryModel.R1 * SmartphoneBatteryModel.C1
        /\ 1000000 * calls.self.tau2 = SmartphoneBatteryModel.R2 * SmartphoneBatteryModel.C2
        /\ \A k \in 1..Len(calls.eq) :
              LET e == calls.eq[k]
              IN e.solved =>
                  /\ e.dy.U1 = quot((e.I_A * AtSOC(30000, calls.y.SOC)) \div 1000
                                      - calls.y.U1 * 1000, 60)
                  /\ e.dy.U2 = quot((e.I_A * AtSOC(20000, calls.y.SOC)) \div 1000
                                      - calls.y.U2 * 1000, 100)

\* a polarization that rises, at SOC = 0.05, where R1*C1 would be 88 s
C23_Witness ==
    /\ calls.active /\ Len(calls.eq) > 0 /\ calls.eq[1].solved
    /\ calls.y.SOC = 50000 /\ calls.eq[1].I_A > 0
    /\ calls.eq[1].dy.U1 > 1000
    /\ calls.eq[1].dy.U1
         # quot((calls.eq[1].I_A * 44250) \div 1000 - calls.y.U1 * 1000, 88)

\* Q0 * f_T(T) * sqrt(1 - k_aging * t / 3600): the effective capacity with
\* the elapsed time converted to hours
CapacityAtHours(self, T, t) ==
    ((((self.Q0 \div 1000) * f_T(self, T)) \div 1000)
        * ISqrt(1000000 - (self.k_aging * t) \div 3600)) \div 1000

\* C24: the aging factor sqrt(1 - k_aging*t) is evaluated with t in hours,
\* the unit of k_aging (h^-1): the state derivative hands the elapsed time
\* converted to hours to f_aging, not raw seconds.
C24_AgingInHours ==
    (calls.active /\ 1000000 - calls.self.k_aging * calls.t > 0) =>
        \A k \in 1..Len(calls.eq) :
            calls.eq[k].solved =>
                calls.eq[k].Q_eff = CapacityAtHours(calls.self, calls.y.T_batt, calls.t)

---------------------------------------------------------------------------
(* monte_carlo_analysis, src/mont.py:9-28: the trials are made one after   *)
(* the other; each constructs a new instance, scales four of its fields    *)
(* by random factors, simulates a full battery over 24 hours and applies   *)
(* find_empty_time.  A perturbation holds the four factors in percent.     *)

Perturbation(q, r, s, c) ==
    [Q0 |-> q, R0 |-> r, P_screen_max |-> s, P_cpu_max |-> c]

\* lines 17-23: battery_temp, a new instance with four fields scaled
battery_temp(p) ==
    [SmartphoneBatteryModel EXCEPT
        !.Q0 = (@ * p.Q0) \div 100,
        !.R0 = (@ * p.R0) \div 100,
        !.P_screen_max = (@ * p.P_screen_max) \div 100,
        !.P_cpu_max = (@ * p.P_cpu_max) \div 100]

\* the factors drawn for the trials of one analysis, from the ends and the
\* middle of uniform(0.9, 1.1)
TrialLists ==
    {<<Perturbation(100, 100, 90, 90), Perturbation(100, 100, 110, 110)>>,
     <<Perturbation(90, 110, 100, 100), Perturbation(90, 110, 110, 90)>>,
     <<Perturbation(90, 100, 100, 100), Perturbation(110, 100, 100, 100)>>}

\* the load models handed to the analysis
TrialScenarios == {"gaming", "video_streaming"}

InitTrials ==
    /\ sc = NoCall /\ run = NoRun /\ fe = NoFind /\ calls = NoCalls /\ dis = NoScript
    /\ par = NoRuns
    /\ \E trials \in TrialLists, name \in TrialScenarios :
         mc = [active |-> TRUE, scenario |-> name, trials |-> trials, i |-> 1,
               self |-> battery_temp(trials[1]),
               t |-> 0, y |-> y0_full, sol |-> sol_start,
               sols |-> <<>>, empty_times |-> <<>>]

\* line 26: one step of the integrator within simulate
TrialStep ==
    /\ mc.active /\ mc.i <= Len(mc.trials) /\ mc.t < Horizon
    /\ LET h == Min2(MaxStep, Horizon - mc.t)
           r == model_equations(mc.self, mc.t, mc.y, scenario_func(mc.scenario, mc.t))
           y1 == advance(mc.y, r.dy, h)
       IN /\ Finite(r.dy.SOC)
          /\ mc' = [mc EXCEPT !.t = mc.t + h, !.y = y1,
                              !.sol = [t |-> Append(mc.sol.t, mc.t + h),
                                       y |-> Append(mc.sol.y, y1),
                                       eps |-> Append(mc.sol.eps, 0)]]
    /\ UNCHANGED <<sc, run, fe, calls, dis, par>>

\* lines 27-28: find_empty_time with its defaults, the result appended (in
\* seconds here, in hours there); then the instance of the next trial
TrialRecord ==
    /\ mc.active /\ mc.i <= Len(mc.trials) /\ mc.t >= Horizon
    /\ LET empty_time == find_empty_time(mc.self, mc.sol, 2500, 50000).ret
       IN mc' = [mc EXCEPT !.empty_times = Append(@, empty_time),
                           !.sols = Append(@, mc.sol),
                           !.i = mc.i + 1,
                           !.self = IF mc.i < Len(mc.trials)
                                    THEN battery_temp(mc.trials[mc.i + 1])
                                    ELSE mc.self,
                           !.t = 0, !.y = y0_full, !.sol = sol_start]
    /\ UNCHANGED <<sc, run, fe, calls, dis, par>>

NextTrials == TrialStep \/ TrialRecord

SpecTrials == InitTrials /\ [][NextTrials]_vars

---------------------------------------------------------------------------
(* Claims about the Monte Carlo analysis (specification SpecTrials) *)

\* two perturbations that differ in P_screen_max and P_cpu_max at most
SameBattery(p, q) == p.Q0 = q.Q0 /\ p.R0 = q.R0

\* the instance with other values of the five fields
OtherFields(self) ==
    [self EXCEPT !.P_screen_max = 100, !.P_cpu_max = 100, !.V_nom = 3000,
                 !.alpha = 300, !.F = 1]

\* C28: the trajectory and the empty-time do not depend on the fields
\* P_screen_max, P_cpu_max, V_nom, alpha and F: two runs whose instances
\* differ only in these fields give the same trajectory and empty-time
\* (screen and CPU power are not capped by the max fields), so the Monte
\* Carlo perturbation of P_screen_max and P_cpu_max has no effect.
C28_UnusedFields ==
    mc.active =>
        /\ \A a, b \in 1..Len(mc.empty_times) :
             SameBattery(mc.trials[a], mc.trials[b]) =>
                 /\ mc.empty_times[a] = mc.empty_times[b]
                 /\ mc.sols[a] = mc.sols[b]
        /\ mc.i <= Len(mc.trials) =>
             /\ model_equations(OtherFields(mc.self), mc.t, mc.y,
                                scenario_func(mc.scenario, mc.t))
                  = model_equations(mc.self, mc.t, mc.y,
                                    scenario_func(mc.scenario, mc.t))
             /\ mc.t >= Horizon =>
                  find_empty_time(OtherFields(mc.self), mc.sol, 2500, 50000)
                    = find_empty_time(mc.self, mc.sol, 2500, 50000)

\* two trials with the same Q0 and R0 and different P_screen_max and
\* P_cpu_max, both emptied within the horizon at the same time
C28_Witness ==
    /\ mc.active /\ Len(mc.empty_times) = 2
    /\ SameBattery(mc.trials[1], mc.trials[2])
    /\ mc.trials[1].P_screen_max # mc.trials[2].P_screen_max
    /\ mc.trials[1].P_cpu_max # mc.trials[2].P_cpu_max
    /\ mc.empty_times[1].den > 0
    /\ mc.empty_times[1].num < Horizon * mc.empty_times[1].den
    /\ mc.empty_times[1] = mc.empty_times[2]

\* two trials that differ in Q0 empty at different times
C28_WitnessCapacity ==
    /\ mc.active /\ Len(mc.empty_times) = 2
    /\ mc.trials[1].Q0 # mc.trials[2].Q0
    /\ mc.empty_times[1] # mc.empty_times[2]

---------------------------------------------------------------------------
(* Two simulation runs whose steps interleave.  A trial of the Monte       *)
(* Carlo analysis (src/mont.py:15-28) computes on the instance it          *)
(* constructs.  A run of the CPU-frequency sweep                           *)
(* (src/问题2/cpu_frequency_analysis.py:47-77) computes on the instance    *)
(* its caller constructed once (line 108) and hands to every run, after    *)
(* writing its frequency into it.  Both simulate the video-streaming load  *)
(* from a full battery; the time span is cut to RunSteps steps.            *)

RunSteps == 2           \* steps of the integrator followed in a run

\* cpu_frequencies, line 98: 1.0, 2.0 and 3.0 GHz
FrequencyInputs == {1, 2, 3}

\* the factors of a trial
PerturbationInputs ==
    {Perturbation(100, 100, 100, 100), Perturbation(90, 110, 90, 110),
     Perturbation(110, 90, 110, 90)}

\* max_step: 10 in the sweep (line 70), the default of simulate in a trial
max_step(driver) == IF driver = "sweep" THEN 10 ELSE MaxStep

\* t_span[1]
t_end(driver) == RunSteps * max_step(driver)

\* line 58: model.P_cpu_f = cpu_freq
set_frequency(model, cpu_freq) == [model EXCEPT !.P_cpu_f = cpu_freq]

\* a run that has not started; self is the instance a trial constructs
new_run(param) ==
    [pc |-> "new", param |-> param, self |-> SmartphoneBatteryModel,
     t |-> 0, y |-> y0_full, sol |-> sol_start, ret |-> None]

\* the instance run i computes on: its own, or the one of the caller
the_model(i) == IF par.driver = "sweep" THEN par.model ELSE par.runs[i].self

InitRuns ==
    /\ sc = NoCall /\ run = NoRun /\ fe = NoFind /\ calls = NoCalls /\ dis = NoScript
    /\ mc = NoTrials
    /\ \/ \E p \in PerturbationInputs, q \in PerturbationInputs :
            par = [active |-> TRUE, driver |-> "trial",
                   model |-> SmartphoneBatteryModel,
                   runs |-> <<new_run(p), new_run(q)>>]
       \/ \E f \in FrequencyInputs, g \in FrequencyInputs :
            par = [active |-> TRUE, driver |-> "sweep",
                   model |-> SmartphoneBatteryModel,
                   runs |-> <<new_run(f), new_run(g)>>]

\* the run prepares its instance: mont.py:17-23, cpu_frequency_analysis.py:58
Begin(i) ==
    /\ par.active /\ par.runs[i].pc = "new"
    /\ par' = IF par.driver = "sweep"
              THEN [par EXCEPT !.model = set_frequency(par.model, par.runs[i].param),
                               !.runs[i].pc = "running"]
              ELSE [par EXCEPT !.runs[i].self = battery_temp(par.runs[i].param),
                               !.runs[i].pc = "running"]
    /\ UNCHANGED <<sc, run, fe, calls, dis, mc>>

\* one step of the integrator within simulate
RunStep(i) ==
    /\ par.active /\ par.runs[i].pc = "running"
    /\ par.runs[i].t < t_end(par.driver)
    /\ LET r0 == par.runs[i]
           h == Min2(max_step(par.driver), t_end(par.driver) - r0.t)
           r == model_equations(the_model(i), r0.t, r0.y, scenario_video_streaming(r0.t))
           y1 == advance(r0.y, r.dy, h)
       IN /\ Finite(r.dy.SOC)
          /\ par' = [par EXCEPT !.runs[i].t = r0.t + h, !.runs[i].y = y1,
                                !.runs[i].sol = [t |-> Append(r0.sol.t, r0.t + h),
                                                 y |-> Append(r0.sol.y, y1),
                                                 eps |-> Append(r0.sol.eps, 0)]]
    /\ UNCHANGED <<sc, run, fe, calls, dis, mc>>

\* simulate returns and find_empty_time is applied with its defaults
RunFinish(i) ==
    /\ par.active /\ par.runs[i].pc = "running"
    /\ par.runs[i].t >= t_end(par.driver)
    /\ par' = [par EXCEPT !.runs[i].pc = "done",
                          !.runs[i].ret = find_empty_time(the_model(i), par.runs[i].sol,
                                                          2500, 50000).ret]
    /\ UNCHANGED <<sc, run, fe, calls, dis, mc>>

NextRuns == \E i \in 1..2 : Begin(i) \/ RunStep(i) \/ RunFinish(i)

SpecRuns == InitRuns /\ [][NextRuns]_vars

---------------------------------------------------------------------------
(* Claims about interleaved runs (specification SpecRuns) *)

\* the instance made of the parameters of run i and of nothing else
OwnParameters(i) ==
    IF par.driver = "sweep" THEN set_frequency(SmartphoneBatteryModel, par.runs[i].param)
                            ELSE battery_temp(par.runs[i].param)

\* the trajectory of a run made alone on the instance self
RECURSIVE Alone(_, _, _, _)
Alone(self, t, y, sol) ==
    IF t >= t_end(par.driver) THEN sol
    ELSE LET h == Min2(max_step(par.driver), t_end(par.driver) - t)
             r == model_equations(self, t, y, scenario_video_streaming(t))
             y1 == advance(y, r.dy, h)
         IN Alone(self, t + h, y1, [t |-> Append(sol.t, t + h),
                                    y |-> Append(sol.y, y1),
                                    eps |-> Append(sol.eps, 0)])

\* run i is done with the trajectory and the empty-time it has when it is
\* made alone
AsAlone(i) ==
    par.runs[i].pc = "done" =>
        LET sol == Alone(OwnParameters(i), 0, y0_full, sol_start)
        IN /\ par.runs[i].sol = sol
           /\ par.runs[i].ret = find_empty_time(OwnParameters(i), sol, 2500, 50000).ret

\* C21: simulation runs share no mutable state: the trajectory and the
\* empty-time of a run depend only on its own parameters, initial state,
\* load model and time span, and interleaving the steps of two runs in any
\* order gives the results of running them one after the other.
C21_RunsIndependent == par.active => \A i \in 1..2 : AsAlone(i)

=============================================================================
